---- MODULE Spec2Model ----
(***************************************************************************)
(* Model of scripts/validate_cubemx_config.py: the STM32CubeMX .ioc        *)
(* validator.  One run of main() is a linear state machine: argument       *)
(* check, IocValidator construction (load_config), the five validate_*     *)
(* checks, the report of run_validation and sys.exit.                      *)
(*                                                                         *)
(* A Python str is modelled as the sequence of its Unicode code points, so *)
(* that str.strip(), int() and the universal-newline reading of the file   *)
(* act on every character Python knows (Unicode 14.0 of Python 3.11).      *)
(* The fixed text of a message is kept as its f-string, together with the  *)
(* values of its placeholders.  Python ints are unbounded, so a parsed     *)
(* frequency is kept as a sign and a normalised decimal digit string.  The *)
(* one place where the code formats a float ({freq / 1e6:.1f}) is kept     *)
(* symbolic, except for the OverflowError that the int -> float            *)
(* conversion raises.                                                      *)
(***************************************************************************)
EXTENDS Integers, Sequences, FiniteSets, TLC

\* ------------------------------------------------------------------------
\* Bounds of the explored inputs
\* ------------------------------------------------------------------------
MaxArgs == 2
MaxFileChars == 5

\* ------------------------------------------------------------------------
\* str: a sequence of code points; S("abc") is the str of an ASCII literal
\* ------------------------------------------------------------------------
AsciiRuns == << <<32, " !">>,
                <<35, "#$%&'()*+,-./0123456789:;<=>?@ABCDEFGHIJKLMNOPQRSTUVWXYZ[">>,
                <<93, "]^_">>,
                <<97, "abcdefghijklmnopqrstuvwxyz{|}~">> >>

\* ord(c) of a one-character literal
Ord(c) ==
    LET r == CHOOSE k \in 1..Len(AsciiRuns) :
                 \E i \in 1..Len(AsciiRuns[k][2]) : SubSeq(AsciiRuns[k][2], i, i) = c
        run == AsciiRuns[r][2]
    IN AsciiRuns[r][1] - 1 + CHOOSE i \in 1..Len(run) : SubSeq(run, i, i) = c

S(lit) == [i \in 1..Len(lit) |-> Ord(SubSeq(lit, i, i))]

\* "\n" and "\r"
LF == 10
CR == 13

\* the characters the code and int() single out
EQUALS == Ord("=")
HASH == Ord("#")
UNDERSCORE == Ord("_")
PLUS == Ord("+")
MINUS == Ord("-")
ZERO == Ord("0")

\* ------------------------------------------------------------------------
\* REQUIREMENTS (the rulebook)
\* ------------------------------------------------------------------------
UART_RX_MODE == S("CIRCULAR")
UART_TX_MODE == S("NORMAL")
ADC_MODE == S("CIRCULAR")
PERIPHERAL_PREEMPT == S("6")
\* the DMA priority check made against the peripheral priority
DmaPreemptAsPeripheral == PERIPHERAL_PREEMPT
DMA_PREEMPT == S("5")
DMA_SUB == S("0")
APB1_MIN == 42000000
APB1_MAX == 50000000
APB2_MIN == 80000000
APB2_MAX == 100000000

\* the keys the checks look up, and the literals they compare with
KEY_UART_RX == S("Dma.USART2_RX.0.Mode")
KEY_UART_TX == S("Dma.USART2_TX.1.Mode")
KEY_ADC == S("Dma.ADC1.0.Mode")
KEY_DMA_PREEMPT == S("NVIC.DMA2_Stream0_IRQn.0.PreemptionPriority")
KEY_DMA_SUB == S("NVIC.DMA2_Stream0_IRQn.0.SubPriority")
KEY_APB1 == S("RCC.APB1Freq_Value")
KEY_APB2 == S("RCC.APB2Freq_Value")
KEY_CAN_MODE == S("CAN1.Mode")
KEY_CAN_PRESCALER == S("CAN1.Prescaler")
KEY_CAN_NART == S("CAN1.NART")
KEY_KEEP_USER_CODE == S("ProjectManager.KeepUserCode")
KEY_DELETE_PREVIOUS == S("ProjectManager.DeletePrevious")
NART_DISABLE == S("DISABLE")
TRUE_STR == S("true")
FREQ_DEFAULT == S("0")

\* ------------------------------------------------------------------------
\* str helpers
\* ------------------------------------------------------------------------
\* the characters str.strip() removes: those with str.isspace()
WhiteSpace == {9, 10, 11, 12, 13, 28, 29, 30, 31, 32, 133, 160, 5760}
              \cup (8192..8202) \cup {8232, 8233, 8239, 8287, 12288}

\* the least element of a non-empty set of positions
First(P) == CHOOSE i \in P : \A j \in P : i <= j

\* s without its leading and trailing characters of W
StripOf(s, W) ==
    LET P == {i \in 1..Len(s) : s[i] \notin W}
        Q == {Len(s) + 1 - i : i \in P}
    IN IF P = {} THEN <<>> ELSE SubSeq(s, First(P), Len(s) + 1 - First(Q))

\* str.strip()
Strip(s) == StripOf(s, WhiteSpace)

\* c in s, for a character c
Contains(s, c) == \E i \in 1..Len(s) : s[i] = c

\* s.startswith(c), for a character c
StartsWith(s, c) == Len(s) > 0 /\ s[1] = c

\* the positions of the characters of C in s
Positions(s, C) == {i \in 1..Len(s) : s[i] \in C}

\* s.find(c) + 1: position of the first c in s, 0 when there is none
Find(s, c) == LET P == Positions(s, {c})
              IN IF P = {} THEN 0 ELSE First(P)

\* line.split('=', 1), for a line that contains '='
SplitFirst(s) == LET p == Find(s, EQUALS)
                 IN <<SubSeq(s, 1, p - 1), SubSeq(s, p + 1, Len(s))>>

\* "for line in f" of a file opened in text mode: universal newlines, a line
\* ends at "\n", at "\r\n" or at a lone "\r"; the lines without their ending
RECURSIVE SplitLines(_)
SplitLines(t) ==
    IF t = <<>> THEN <<>>
    ELSE LET P == Positions(t, {LF, CR})
         IN IF P = {} THEN <<t>>
            ELSE LET p == First(P)
                     q == IF t[p] = CR /\ p < Len(t) /\ t[p + 1] = LF THEN p + 1 ELSE p
                 IN <<SubSeq(t, 1, p - 1)>> \o SplitLines(SubSeq(t, q + 1, Len(t)))

\* ------------------------------------------------------------------------
\* load_config
\* ------------------------------------------------------------------------
EmptyConfig == [k \in {} |-> <<>>]

\* self.config[key] = value, keeping an earlier value of the key
PutFirst(cfg, k, v) == [x \in DOMAIN cfg \cup {k} |->
                           IF x \in DOMAIN cfg THEN cfg[x] ELSE v]

\* self.config[key] = value
Put(cfg, k, v) == [x \in DOMAIN cfg \cup {k} |-> IF x = k THEN v ELSE cfg[x]]

\* the body of the loop over the lines of the file
LoadLine(cfg, raw) ==
    LET line == Strip(raw)
    IN IF Contains(line, EQUALS) /\ ~StartsWith(line, HASH)
       THEN LET kv == SplitFirst(line)
            IN Put(cfg, Strip(kv[1]), Strip(kv[2]))
       ELSE cfg

\* the loop: the lines are processed in file order
RECURSIVE LoadFrom(_, _)
LoadFrom(cfg, ls) == IF ls = <<>> THEN cfg
                     ELSE LoadFrom(LoadLine(cfg, Head(ls)), Tail(ls))

\* get_value
get_value(cfg, key, default) == IF key \in DOMAIN cfg THEN cfg[key] ELSE default

\* ------------------------------------------------------------------------
\* int(str) and the int -> float conversion of "freq / 1e6"
\* ------------------------------------------------------------------------
\* the digit zero of every run of Unicode decimal digits (category Nd)
DigitZeros ==
    {48, 1632, 1776, 1984, 2406, 2534, 2662, 2790, 2918, 3046, 3174, 3302,
     3430, 3558, 3664, 3792, 3872, 4160, 4240, 6112, 6160, 6470, 6608, 6784,
     6800, 6992, 7088, 7232, 7248, 42528, 43216, 43264, 43472, 43504, 43600,
     44016, 65296, 66720, 68912, 69734, 69872, 69942, 70096, 70384, 70736,
     70864, 71248, 71360, 71472, 71904, 72016, 72784, 73040, 73120, 92768,
     92864, 93008, 120782, 120792, 120802, 120812, 120822, 123200, 123632,
     125264, 130032}

\* the characters int() reads as a digit, and the digit each stands for
Digits == UNION {z..(z + 9) : z \in DigitZeros}
DigitVal == [c \in Digits |-> c - (CHOOSE z \in DigitZeros : c \in z..(z + 9))]

\* the characters int() skips around a literal: the white space of C's
\* isspace() and the non-ASCII Unicode white space (not 0x1c-0x1f)
IntSpace == {9, 10, 11, 12, 13, 32} \cup {c \in WhiteSpace : c > 127}

\* sys.int_info.default_max_str_digits: int() refuses a longer literal
IntMaxStrDigits == 4300

\* s without its underscores
DropUnderscores(s) == SelectSeq(s, LAMBDA c : c # UNDERSCORE)

\* a digit string without its leading zeros, "0" when all are zeros
DropLeadingZeros(s) == LET P == {i \in 1..Len(s) : s[i] # ZERO}
                       IN IF P = {} THEN S("0") ELSE SubSeq(s, First(P), Len(s))

\* the digit part of a decimal literal: digits, single underscores between
\* them, no more digits than int() converts
IsDigitBody(b) ==
    /\ Len(b) > 0
    /\ \A i \in 1..Len(b) : b[i] \in Digits \cup {UNDERSCORE}
    /\ b[1] # UNDERSCORE
    /\ b[Len(b)] # UNDERSCORE
    /\ \A i \in 1..(Len(b) - 1) : ~(b[i] = UNDERSCORE /\ b[i + 1] = UNDERSCORE)
    /\ Len(DropUnderscores(b)) <= IntMaxStrDigits

\* int(s): ok = FALSE stands for ValueError; otherwise the value is
\* (-1)^neg * mag, mag an ASCII decimal digit string without leading zeros
PyInt(s) ==
    LET t == StripOf(s, IntSpace)
        signed == Len(t) > 0 /\ Head(t) \in {PLUS, MINUS}
        body == IF signed THEN Tail(t) ELSE t
        digits == DropUnderscores(body)
        mag == DropLeadingZeros([i \in 1..Len(digits) |-> ZERO + DigitVal[digits[i]]])
    IN IF IsDigitBody(body)
       THEN [ok |-> TRUE, neg |-> (signed /\ Head(t) = MINUS /\ mag # S("0")), mag |-> mag]
       ELSE [ok |-> FALSE, neg |-> FALSE, mag |-> <<>>]

\* value of an ASCII digit string of at most 9 digits
RECURSIVE DecVal(_)
DecVal(d) == IF d = <<>> THEN 0
             ELSE 10 * DecVal(SubSeq(d, 1, Len(d) - 1)) + DigitVal[d[Len(d)]]

\* lo <= n <= hi for bounds below 10^9
InRange(n, lo, hi) ==
    /\ Len(n.mag) <= 9
    /\ LET v == IF n.neg THEN 0 - DecVal(n.mag) ELSE DecVal(n.mag)
       IN lo <= v /\ v <= hi

\* a >= b for digit strings of the same length
DigitsGeq(a, b) ==
    LET P == {i \in 1..Len(a) : a[i] # b[i]}
    IN P = {} \/ a[First(P)] > b[First(P)]

\* 2^1024 - 2^970: the least magnitude whose conversion to a double overflows
FloatOverflowMin == S("179769313486231580793728971405303415079934132710037826936173778980444968292764750946649017977587207096330286416692887910946555547851940402630657488671505820681908902000708383676273854845817711531764475730270069855571366959622842914819860834936475292719074168444365510704342711559699508093042880177904174497792")

\* float(n) raises OverflowError
FloatOverflows(n) ==
    \/ Len(n.mag) > Len(FloatOverflowMin)
    \/ Len(n.mag) = Len(FloatOverflowMin) /\ DigitsGeq(n.mag, FloatOverflowMin)

\* str(n)
IntStr(n) == IF n.neg THEN <<MINUS>> \o n.mag ELSE n.mag

\* ------------------------------------------------------------------------
\* Messages, output lines and the five checks.  A message is its f-string
\* and the values of its placeholders, in order; the operand n of
\* {n / 1e6:.1f} is given as str(n).  A check yields the errors and the
\* warnings it appends, the lines it prints, and whether it raised.
\* ------------------------------------------------------------------------
Msg(text, args) == [text |-> text, args |-> args]

Line(kind, text, args) == [kind |-> kind, n |-> 0, text |-> text, args |-> args]

Outcome(e, w, o, r) == [errs |-> e, warns |-> w, out |-> o, raised |-> r]

\* validate_dma_config with the UART TX mismatch appended to the errors
DmaCheckTxError(cfg) ==
    LET uart_rx_dma == get_value(cfg, KEY_UART_RX, <<>>)
        uart_tx_dma == get_value(cfg, KEY_UART_TX, <<>>)
        adc_dma_mode == get_value(cfg, KEY_ADC, <<>>)
        rxOk == uart_rx_dma = UART_RX_MODE
        txOk == uart_tx_dma = UART_TX_MODE
        adcOk == adc_dma_mode = ADC_MODE
    IN Outcome(
        (IF rxOk THEN <<>> ELSE
           <<Msg("UART RX DMA mode: Expected {UART_RX_MODE}, found '{uart_rx_dma}'",
                 <<UART_RX_MODE, uart_rx_dma>>)>>)
        \o (IF txOk THEN <<>> ELSE
           <<Msg("UART TX DMA mode: Expected {UART_TX_MODE}, found '{uart_tx_dma}'",
                 <<UART_TX_MODE, uart_tx_dma>>)>>)
        \o (IF adcOk THEN <<>> ELSE
           <<Msg("ADC DMA mode: Expected {ADC_MODE}, found '{adc_dma_mode}'",
                 <<ADC_MODE, adc_dma_mode>>)>>),
        <<>>,
        <<Line("section", "[DMA Configuration]", <<>>)>>
        \o (IF rxOk THEN <<Line("confirm", "UART RX DMA mode: {uart_rx_dma}", <<uart_rx_dma>>)>>
            ELSE <<>>)
        \o (IF txOk THEN <<Line("confirm", "UART TX DMA mode: {uart_tx_dma}", <<uart_tx_dma>>)>>
            ELSE <<>>)
        \o (IF adcOk THEN <<Line("confirm", "ADC DMA mode: {adc_dma_mode}", <<adc_dma_mode>>)>>
            ELSE <<>>),
        FALSE)

\* validate_dma_config
DmaCheck(cfg) ==
    LET uart_rx_dma == get_value(cfg, KEY_UART_RX, <<>>)
        uart_tx_dma == get_value(cfg, KEY_UART_TX, <<>>)
        adc_dma_mode == get_value(cfg, KEY_ADC, <<>>)
        rxOk == uart_rx_dma = UART_RX_MODE
        txOk == uart_tx_dma = UART_TX_MODE
        adcOk == adc_dma_mode = ADC_MODE
    IN Outcome(
        (IF rxOk THEN <<>> ELSE
           <<Msg("UART RX DMA mode: Expected {UART_RX_MODE}, found '{uart_rx_dma}'",
                 <<UART_RX_MODE, uart_rx_dma>>)>>)
        \o (IF adcOk THEN <<>> ELSE
           <<Msg("ADC DMA mode: Expected {ADC_MODE}, found '{adc_dma_mode}'",
                 <<ADC_MODE, adc_dma_mode>>)>>),
        (IF txOk THEN <<>> ELSE
           <<Msg("UART TX DMA mode: Expected {UART_TX_MODE}, found '{uart_tx_dma}'",
                 <<UART_TX_MODE, uart_tx_dma>>)>>),
        <<Line("section", "[DMA Configuration]", <<>>)>>
        \o (IF rxOk THEN <<Line("confirm", "UART RX DMA mode: {uart_rx_dma}", <<uart_rx_dma>>)>>
            ELSE <<>>)
        \o (IF txOk THEN <<Line("confirm", "UART TX DMA mode: {uart_tx_dma}", <<uart_tx_dma>>)>>
            ELSE <<>>)
        \o (IF adcOk THEN <<Line("confirm", "ADC DMA mode: {adc_dma_mode}", <<adc_dma_mode>>)>>
            ELSE <<>>),
        FALSE)

\* validate_interrupts (the sub-priority branch has no else: nothing is printed)
InterruptCheck(cfg) ==
    LET dma_preempt == get_value(cfg, KEY_DMA_PREEMPT, <<>>)
        dma_sub == get_value(cfg, KEY_DMA_SUB, <<>>)
        preOk == dma_preempt = DMA_PREEMPT
        subOk == dma_sub = DMA_SUB
    IN Outcome(
        <<>>,
        (IF preOk THEN <<>> ELSE
           <<Msg("DMA preemption priority: Expected {DMA_PREEMPT}, found '{dma_preempt}'",
                 <<DMA_PREEMPT, dma_preempt>>)>>)
        \o (IF subOk THEN <<>> ELSE
           <<Msg("DMA sub-priority: Expected {DMA_SUB}, found '{dma_sub}'",
                 <<DMA_SUB, dma_sub>>)>>),
        <<Line("section", "[Interrupt Configuration]", <<>>)>>
        \o (IF preOk THEN <<Line("confirm", "DMA preemption priority: {dma_preempt}",
                                 <<dma_preempt>>)>>
            ELSE <<>>),
        FALSE)

\* validate_clock_config
ClockCheck(cfg) ==
    LET apb1_freq_str == get_value(cfg, KEY_APB1, FREQ_DEFAULT)
        apb2_freq_str == get_value(cfg, KEY_APB2, FREQ_DEFAULT)
        apb1_freq == PyInt(apb1_freq_str)
        apb2_freq == PyInt(apb2_freq_str)
        section == <<Line("section", "[Clock Configuration]", <<>>)>>
        apb1Ok == InRange(apb1_freq, APB1_MIN, APB1_MAX)
        apb2Ok == InRange(apb2_freq, APB2_MIN, APB2_MAX)
        apb1Errs == IF apb1Ok THEN <<>> ELSE
            <<Msg("APB1 frequency out of range: {apb1_freq / 1e6:.1f} MHz (expected 42-50 MHz)",
                  <<IntStr(apb1_freq)>>)>>
        apb1Out == IF apb1Ok
                   THEN <<Line("confirm", "APB1 frequency: {apb1_freq / 1e6:.1f} MHz",
                               <<IntStr(apb1_freq)>>)>>
                   ELSE <<>>
    IN IF ~apb1_freq.ok \/ ~apb2_freq.ok
       THEN Outcome(<<Msg("Failed to parse clock frequencies from IOC file", <<>>)>>,
                    <<>>, section, FALSE)
       ELSE IF ~apb1Ok /\ FloatOverflows(apb1_freq)
       THEN Outcome(<<>>, <<>>, section, TRUE)
       ELSE IF apb2Ok
       THEN Outcome(apb1Errs, <<>>,
                    section \o apb1Out
                    \o <<Line("confirm", "APB2 frequency: {apb2_freq / 1e6:.1f} MHz",
                              <<IntStr(apb2_freq)>>)>>,
                    FALSE)
       ELSE IF FloatOverflows(apb2_freq)
       THEN Outcome(apb1Errs, <<>>, section \o apb1Out, TRUE)
       ELSE Outcome(apb1Errs,
                    <<Msg("APB2 frequency out of optimal range: {apb2_freq / 1e6:.1f} MHz (recommended 80-100 MHz)",
                          <<IntStr(apb2_freq)>>)>>,
                    section \o apb1Out, FALSE)

\* validate_can_config with the retransmit check made to depend on the prescaler
CanCheckPrescaler(cfg) ==
    LET can_mode == get_value(cfg, KEY_CAN_MODE, <<>>)
        prescaler == get_value(cfg, KEY_CAN_PRESCALER, <<>>)
        auto_retx == get_value(cfg, KEY_CAN_NART, <<>>)
        section == <<Line("section", "[CAN Configuration]", <<>>)>>
        prescOut == IF prescaler # <<>>
                    THEN <<Line("confirm", "CAN prescaler configured: {prescaler}", <<prescaler>>)>>
                    ELSE <<>>
    IN IF can_mode = <<>>
       THEN Outcome(<<>>, <<Msg("CAN1 not enabled (platform supports CAN)", <<>>)>>,
                    section, FALSE)
       ELSE IF auto_retx = NART_DISABLE /\ prescaler # <<>>
       THEN Outcome(<<>>, <<>>,
                    section \o prescOut
                    \o <<Line("confirm", "CAN auto-retransmit: ENABLED (NART=DISABLE)", <<>>)>>,
                    FALSE)
       ELSE Outcome(<<>>,
                    <<Msg("CAN auto-retransmit should be enabled (NART=DISABLE), found NART={auto_retx}",
                          <<auto_retx>>)>>,
                    section \o prescOut, FALSE)

\* validate_can_config
CanCheck(cfg) ==
    LET can_mode == get_value(cfg, KEY_CAN_MODE, <<>>)
        prescaler == get_value(cfg, KEY_CAN_PRESCALER, <<>>)
        auto_retx == get_value(cfg, KEY_CAN_NART, <<>>)
        section == <<Line("section", "[CAN Configuration]", <<>>)>>
        prescOut == IF prescaler # <<>>
                    THEN <<Line("confirm", "CAN prescaler configured: {prescaler}", <<prescaler>>)>>
                    ELSE <<>>
    IN IF can_mode = <<>>
       THEN Outcome(<<>>, <<Msg("CAN1 not enabled (platform supports CAN)", <<>>)>>,
                    section, FALSE)
       ELSE IF auto_retx = NART_DISABLE
       THEN Outcome(<<>>, <<>>,
                    section \o prescOut
                    \o <<Line("confirm", "CAN auto-retransmit: ENABLED (NART=DISABLE)", <<>>)>>,
                    FALSE)
       ELSE Outcome(<<>>,
                    <<Msg("CAN auto-retransmit should be enabled (NART=DISABLE), found NART={auto_retx}",
                          <<auto_retx>>)>>,
                    section \o prescOut, FALSE)

\* validate_code_generation (a DeletePrevious other than "true" prints nothing)
CodeGenCheck(cfg) ==
    LET keep_user_code == get_value(cfg, KEY_KEEP_USER_CODE, <<>>)
        delete_prev == get_value(cfg, KEY_DELETE_PREVIOUS, <<>>)
        keepOk == keep_user_code = TRUE_STR
    IN Outcome(
        (IF keepOk THEN <<>> ELSE
           <<Msg("Code generation setting 'KeepUserCode' must be 'true' for platform integration",
                 <<>>)>>),
        (IF delete_prev = TRUE_STR
           THEN <<Msg("Code generation 'DeletePrevious' is enabled - may remove platform files",
                      <<>>)>>
           ELSE <<>>),
        <<Line("section", "[Code Generation Settings]", <<>>)>>
        \o (IF keepOk THEN <<Line("confirm", "Keep user code: Enabled", <<>>)>> ELSE <<>>),
        FALSE)

\* the report of run_validation printing the warnings before the errors
RunReportWarningsFirst(errs, warns) ==
    LET banner == <<Line("banner", "Validation Results", <<>>)>>
        numbered(kind, msgs) == [i \in 1..Len(msgs) |->
            [kind |-> kind, n |-> i, text |-> msgs[i].text, args |-> msgs[i].args]]
    IN IF errs = <<>> /\ warns = <<>>
       THEN [out |-> banner
                     \o <<Line("verdict", "All checks passed! Configuration meets platform requirements.", <<>>)>>,
             success |-> TRUE]
       ELSE [out |-> banner
                     \o (IF warns # <<>>
                         THEN <<Line("list", "WARNINGS", <<>>)>> \o numbered("warning", warns)
                         ELSE <<>>)
                     \o (IF errs # <<>>
                         THEN <<Line("list", "ERRORS", <<>>)>> \o numbered("error", errs)
                         ELSE <<>>)
                     \o (IF errs # <<>>
                         THEN <<Line("verdict", "Configuration FAILED validation. Fix errors before proceeding.", <<>>)>>
                         ELSE <<Line("verdict", "Configuration passed with warnings. Review recommendations.", <<>>)>>),
             success |-> (errs = <<>>)]

\* the report of run_validation and its return value
RunReport(errs, warns) ==
    LET banner == <<Line("banner", "Validation Results", <<>>)>>
        numbered(kind, msgs) == [i \in 1..Len(msgs) |->
            [kind |-> kind, n |-> i, text |-> msgs[i].text, args |-> msgs[i].args]]
    IN IF errs = <<>> /\ warns = <<>>
       THEN [out |-> banner
                     \o <<Line("verdict", "All checks passed! Configuration meets platform requirements.", <<>>)>>,
             success |-> TRUE]
       ELSE [out |-> banner
                     \o (IF errs # <<>>
                         THEN <<Line("list", "ERRORS", <<>>)>> \o numbered("error", errs)
                         ELSE <<>>)
                     \o (IF warns # <<>>
                         THEN <<Line("list", "WARNINGS", <<>>)>> \o numbered("warning", warns)
                         ELSE <<>>)
                     \o (IF errs # <<>>
                         THEN <<Line("verdict", "Configuration FAILED validation. Fix errors before proceeding.", <<>>)>>
                         ELSE <<Line("verdict", "Configuration passed with warnings. Review recommendations.", <<>>)>>),
             success |-> (errs = <<>>)]

\* sys.exit(0 if success else 1), failing on warnings too
ExitStatusStrict(ok, warns) == IF ok /\ warns = <<>> THEN 0 ELSE 1

\* sys.exit(0 if success else 1); the warnings play no part
ExitStatus(ok, warns) == IF ok THEN 0 ELSE 1

\* sys.exit(2) of the "except Exception" path
ExitUnexpected == 2

\* the status of the usage and FileNotFoundError paths, were it the generic one
ExitFailureAsUnexpected == ExitUnexpected

\* sys.exit(1) of the usage and FileNotFoundError paths
ExitFailure == 1

\* ------------------------------------------------------------------------
\* State
\* ------------------------------------------------------------------------
VARIABLES
    argc,       \* len(sys.argv) - 1
    fkind,      \* what the path names: "text", "missing" or "unreadable"
    text,       \* the decoded content of the file
    pc,         \* position of main
    touched,    \* the file system has been consulted
    config,     \* IocValidator.config
    errors,     \* IocValidator.errors
    warnings,   \* IocValidator.warnings
    success,    \* the value returned by run_validation
    out,        \* the lines printed so far
    exitCode    \* the status passed to sys.exit, -1 while running

vars == <<argc, fkind, text, pc, touched, config, errors, warnings, success, out, exitCode>>

input == <<argc, fkind, text>>

NoStatus == 0 - 1

\* ------------------------------------------------------------------------
\* Input files
\* ------------------------------------------------------------------------
\* n times the character c
Rep(c, n) == [i \in 1..n |-> c]

\* the ASCII digit string d written with the digits of another script
Script(d, zero) == [i \in 1..Len(d) |-> zero + d[i] - ZERO]

\* 10^309, beyond the range of a double
Huge == S("1") \o Rep(ZERO, Len(FloatOverflowMin))

\* the line endings a text file may use
Eols == {<<LF>>, <<CR, LF>>, <<CR>>}

\* one optional line per rulebook key, in a fixed file order
KeyLines(key, values, eol) == {<<>>} \cup {key \o <<EQUALS>> \o v \o eol : v \in values}

RuleFiles ==
    { rx \o tx \o adc \o pre \o sub \o a1 \o a2 \o mode \o presc \o nart \o keep \o del :
        rx \in KeyLines(KEY_UART_RX, {S("CIRCULAR")}, <<LF>>),
        tx \in KeyLines(KEY_UART_TX, {S("NORMAL")}, <<LF>>),
        adc \in KeyLines(KEY_ADC, {S("CIRCULAR")}, <<LF>>),
        pre \in KeyLines(KEY_DMA_PREEMPT, {S("5")}, <<LF>>),
        sub \in KeyLines(KEY_DMA_SUB, {S("0")}, <<LF>>),
        a1 \in KeyLines(KEY_APB1, {S("45000000"), S("abc"), Huge}, <<LF>>),
        a2 \in KeyLines(KEY_APB2, {S("90000000")}, <<LF>>),
        mode \in KeyLines(KEY_CAN_MODE, {S("NORMAL")}, <<LF>>),
        presc \in KeyLines(KEY_CAN_PRESCALER, {S("6")}, <<LF>>),
        nart \in KeyLines(KEY_CAN_NART, {S("DISABLE"), S("ENABLE")}, <<LF>>),
        keep \in KeyLines(KEY_KEEP_USER_CODE, {S("true")}, <<LF>>),
        del \in KeyLines(KEY_DELETE_PREVIOUS, {S("true"), S("false")}, <<LF>>) }

\* every text of at most n characters over "A", "=", "#", " ", "\n", "\r"
FileAlphabet == {Ord("A"), EQUALS, HASH, Ord(" "), LF, CR}

RECURSIVE TextsUpTo(_)
TextsUpTo(n) == IF n = 0 THEN {<<>>}
                ELSE LET shorter == TextsUpTo(n - 1)
                     IN shorter \cup {s \o <<c>> : s \in shorter, c \in FileAlphabet}

\* texts with white space and line ends outside that alphabet: "\v" "\x1f"
\* U+3000 and U+0085 around a key and a value, a byte order mark, a
\* no-break space before '#', "\f" after '=', U+2028 inside a value, and
\* two lines with each line ending
OtherTexts ==
    { <<11>> \o S("A") \o <<31>> \o S("=") \o <<12288>> \o S("A") \o <<133>>,
      <<65279>> \o S("A=A"),
      <<160>> \o S("#A=A"),
      S("A=") \o <<12>> \o S("A=A") \o <<28, 29, 30>>,
      S("A=A") \o <<8232>> \o S("A="),
      S("A=#") } \cup
    { S("A =A=") \o e \o S(" A= =") \o e : e \in Eols }

LoadTexts(n) == TextsUpTo(n) \cup OtherTexts

ClockValues ==
    {S("41999999"), S("42000000"), S("45000000"), S("50000000"), S("50000001"),
     S("79999999"), S("80000000"), S("100000000"), S("100000001"),
     S("0"), S("-45000000"), S("+45000000"), S("45_000_000"), S("045000000"),
     S("9999999999"),
     <<>>, S("abc"), S("45000000.0"), S("4 5"), S("_45"), S("45_"), S("4__5"),
     S("+"), S("0x2AEA540"),
     Script(S("45000000"), 65296), Script(S("90000000"), 1632),
     S("4") \o Script(S("1999999"), 2406),
     S("45") \o <<160>> \o S("000000"), S("4") \o <<31>> \o S("5"),
     Huge, <<MINUS>> \o Huge, FloatOverflowMin,
     SubSeq(FloatOverflowMin, 1, Len(FloatOverflowMin) - 1) \o S("1"),
     Rep(Ord("1"), IntMaxStrDigits), Rep(Ord("1"), IntMaxStrDigits + 1),
     Rep(ZERO, IntMaxStrDigits - 8) \o S("45000000"),
     Rep(ZERO, IntMaxStrDigits - 7) \o S("45000000")}

ClockFiles ==
    { a1 \o a2 :
        a1 \in UNION {KeyLines(KEY_APB1, ClockValues, e) : e \in Eols},
        a2 \in KeyLines(KEY_APB2, ClockValues, <<LF>>) }

DmaValues == {<<>>, S("CIRCULAR"), S("NORMAL"), S("circular"), S("Normal"),
              <<11>> \o S("CIRCULAR") \o <<12288>>, <<65279>> \o S("NORMAL")}

DmaFiles ==
    { rx \o tx \o adc :
        rx \in UNION {KeyLines(KEY_UART_RX, DmaValues, e) : e \in Eols},
        tx \in KeyLines(KEY_UART_TX, DmaValues, <<LF>>),
        adc \in KeyLines(KEY_ADC, DmaValues, <<LF>>) }

CanFiles ==
    { mode \o presc \o nart :
        mode \in UNION {KeyLines(KEY_CAN_MODE, {<<>>, S("NORMAL"), S("LOOPBACK")}, e) : e \in Eols},
        presc \in KeyLines(KEY_CAN_PRESCALER, {<<>>, S("6"), S("abc")}, <<LF>>),
        nart \in KeyLines(KEY_CAN_NART,
                          {<<>>, S("DISABLE"), S("ENABLE"), S("disable"),
                           S("DISABLE") \o <<160>>}, <<LF>>) }

\* ------------------------------------------------------------------------
\* Initial states: the process has been started, nothing has run
\* ------------------------------------------------------------------------
InitWith(files) ==
    /\ text \in files
    /\ argc \in 0..MaxArgs
    /\ fkind \in {"text", "missing", "unreadable"}
    /\ (argc # 1 \/ fkind # "text") => text = <<>>
    /\ pc = "main"
    /\ touched = FALSE
    /\ config = EmptyConfig
    /\ errors = <<>>
    /\ warnings = <<>>
    /\ success = FALSE
    /\ out = <<>>
    /\ exitCode = NoStatus

Init == InitWith(RuleFiles)

InitLoad == InitWith(LoadTexts(MaxFileChars))

InitClock == InitWith(ClockFiles)

InitDma == InitWith(DmaFiles)

InitCan == InitWith(CanFiles)

\* ------------------------------------------------------------------------
\* Actions
\* ------------------------------------------------------------------------
\* main: len(sys.argv) != 2
MainUsage ==
    /\ pc = "main"
    /\ argc # 1
    /\ out' = out \o <<Line("usage", "Usage: python validate_cubemx_config.py <path_to_project.ioc>", <<>>)>>
    /\ exitCode' = ExitFailure
    /\ pc' = "exited"
    /\ UNCHANGED <<input, touched, config, errors, warnings, success>>

\* main: IocValidator(ioc_path) raises FileNotFoundError
ConstructNotFound ==
    /\ pc = "main"
    /\ argc = 1
    /\ fkind = "missing"
    /\ touched' = TRUE
    /\ out' = out \o <<Line("notfound", "Error: IOC file not found", <<>>)>>
    /\ exitCode' = ExitFailure
    /\ pc' = "exited"
    /\ UNCHANGED <<input, config, errors, warnings, success>>

\* main: IocValidator(ioc_path) raises another exception (open or decode fails)
ConstructUnexpected ==
    /\ pc = "main"
    /\ argc = 1
    /\ fkind = "unreadable"
    /\ touched' = TRUE
    /\ out' = out \o <<Line("unexpected", "Unexpected error", <<>>)>>
    /\ exitCode' = ExitUnexpected
    /\ pc' = "exited"
    /\ UNCHANGED <<input, config, errors, warnings, success>>

\* main: IocValidator(ioc_path) returns, load_config has read the file
ConstructOk ==
    /\ pc = "main"
    /\ argc = 1
    /\ fkind = "text"
    /\ touched' = TRUE
    /\ config' = LoadFrom(EmptyConfig, SplitLines(text))
    /\ pc' = "loaded"
    /\ UNCHANGED <<input, errors, warnings, success, out, exitCode>>

\* run_validation: the header
RunValidationHeader ==
    /\ pc = "loaded"
    /\ out' = out \o <<Line("banner", "STM32CubeMX Configuration Validator", <<>>)>>
    /\ pc' = "dma"
    /\ UNCHANGED <<input, touched, config, errors, warnings, success, exitCode>>

\* one validate_* call of run_validation; an exception it raises is caught by main
RunCheck(at, r, next) ==
    /\ pc = at
    /\ errors' = errors \o r.errs
    /\ warnings' = warnings \o r.warns
    /\ out' = out \o r.out
              \o (IF r.raised THEN <<Line("unexpected", "Unexpected error", <<>>)>> ELSE <<>>)
    /\ exitCode' = IF r.raised THEN ExitUnexpected ELSE exitCode
    /\ pc' = IF r.raised THEN "exited" ELSE next
    /\ UNCHANGED <<input, touched, config, success>>

ValidateDma == RunCheck("dma", DmaCheck(config), "interrupts")

ValidateInterrupts == RunCheck("interrupts", InterruptCheck(config), "clock")

ValidateClock == RunCheck("clock", ClockCheck(config), "can")

ValidateCan == RunCheck("can", CanCheck(config), "codegen")

ValidateCodeGen == RunCheck("codegen", CodeGenCheck(config), "report")

\* run_validation: the results section and the return value
Report ==
    /\ pc = "report"
    /\ LET r == RunReport(errors, warnings)
       IN /\ out' = out \o r.out
          /\ success' = r.success
    /\ pc' = "reported"
    /\ UNCHANGED <<input, touched, config, errors, warnings, exitCode>>

\* main: sys.exit(0 if success else 1)
Exit ==
    /\ pc = "reported"
    /\ exitCode' = ExitStatus(success, warnings)
    /\ pc' = "exited"
    /\ UNCHANGED <<input, touched, config, errors, warnings, success, out>>

Next ==
    \/ MainUsage
    \/ ConstructNotFound
    \/ ConstructUnexpected
    \/ ConstructOk
    \/ RunValidationHeader
    \/ ValidateDma
    \/ ValidateInterrupts
    \/ ValidateClock
    \/ ValidateCan
    \/ ValidateCodeGen
    \/ Report
    \/ Exit

Spec == Init /\ [][Next]_vars

SpecLoad == InitLoad /\ [][Next]_vars

SpecClock == InitClock /\ [][Next]_vars

SpecDma == InitDma /\ [][Next]_vars

SpecCan == InitCan /\ [][Next]_vars

TypeOK ==
    /\ argc \in 0..(MaxArgs + 1)
    /\ pc \in {"main", "loaded", "dma", "interrupts", "clock", "can", "codegen",
               "report", "reported", "exited"}
    /\ exitCode \in {NoStatus, 0, 1, 2}

\* ------------------------------------------------------------------------
\* Vocabulary of the properties
\* ------------------------------------------------------------------------
\* the literals the claims name
CIRCULAR == S("CIRCULAR")
NORMAL == S("NORMAL")
DISABLE == S("DISABLE")
LIT_TRUE == S("true")
LIT_FALSE == S("false")
FIVE == S("5")
NOUGHT == S("0")
COMMENT == S("#")

HasPrefix(m, p) == Len(m) >= Len(p) /\ SubSeq(m, 1, Len(p)) = p

\* the message is an instance of an f-string that begins with p
Says(m, p) == HasPrefix(m.text, p)

\* the file was loaded: the validator exists
Loaded == argc = 1 /\ fkind = "text" /\ pc # "main"

\* the lines of the input file
Lines == SplitLines(text)

\* the check that prints this section header has run
Ran(section) == \E i \in 1..Len(out) : out[i].kind = "section" /\ out[i].text = section

\* run_validation returned: the verdict line is printed
Completed == \E i \in 1..Len(out) : out[i].kind = "verdict"

Count(seq, P(_)) == Cardinality({i \in 1..Len(seq) : P(seq[i])})

Increasing(ranks) == \A i \in 1..(Len(ranks) - 1) : ranks[i] < ranks[i + 1]

\* the value a lookup of the loaded mapping gives, absent keys being empty
Value(key) == IF key \in DOMAIN config THEN config[key] ELSE <<>>

\* C1 ----------------------------------------------------------------------
\* C1: when main ran with one argument and validation completed, the exit
\* code is 0 exactly when the error list is empty (whatever the warnings)
\* and 1 exactly when it holds an error.
C1_ExitCodeIffNoErrors ==
    (pc = "exited" /\ argc = 1 /\ Completed) =>
        /\ (exitCode = 0 <=> errors = <<>>)
        /\ (exitCode = 1 <=> errors # <<>>)

C1_Witness ==
    /\ pc = "exited" /\ argc = 1 /\ Completed
    /\ errors = <<>> /\ Len(warnings) > 0 /\ exitCode = 0

\* C3 ----------------------------------------------------------------------
\* C3: a run that does not complete validation exits 1 on a wrong argument
\* count without touching the file system, exits 1 on a missing path having
\* printed only the not-found message, exits 2 on any other exception, and
\* never exits 0.
C3_FailureExitCodes ==
    (pc = "exited" /\ ~Completed) =>
        /\ exitCode # 0
        /\ argc # 1 => (exitCode = 1 /\ ~touched)
        /\ (argc = 1 /\ fkind = "missing") =>
               /\ exitCode = 1
               /\ Len(out) = 1 /\ out[1].kind = "notfound"
               /\ errors = <<>> /\ warnings = <<>>
        /\ (argc = 1 /\ fkind # "missing") => exitCode = 2

C3_Witness ==
    /\ pc = "exited" /\ argc = 1 /\ fkind = "missing"
    /\ exitCode = 1 /\ Len(out) = 1 /\ touched

\* C5 ----------------------------------------------------------------------
\* C5: the CAN check appends no error; it appends the single 'CAN1 not
\* enabled' warning when CAN1.Mode is absent or empty, nothing when the mode
\* is set and CAN1.NART is "DISABLE", and one other warning for any other
\* NART; CAN1.Prescaler has no part in it.
C5_CanFindings ==
    [][pc = "can" =>
        /\ errors' = errors
        /\ Value(KEY_CAN_MODE) = <<>> =>
               warnings' = warnings \o <<Msg("CAN1 not enabled (platform supports CAN)", <<>>)>>
        /\ (Value(KEY_CAN_MODE) # <<>> /\ Value(KEY_CAN_NART) = DISABLE) =>
               warnings' = warnings
        /\ (Value(KEY_CAN_MODE) # <<>> /\ Value(KEY_CAN_NART) # DISABLE) =>
               /\ Len(warnings') = Len(warnings) + 1
               /\ SubSeq(warnings', 1, Len(warnings)) = warnings
               /\ Says(warnings'[Len(warnings')], "CAN auto-retransmit")
               /\ warnings'[Len(warnings')].args = <<Value(KEY_CAN_NART)>>
      ]_vars

C5_Witness ==
    /\ pc = "codegen"
    /\ Value(KEY_CAN_MODE) = NORMAL /\ Value(KEY_CAN_NART) = DISABLE
    /\ KEY_CAN_PRESCALER \notin DOMAIN config
    /\ ~\E i \in 1..Len(warnings) : Says(warnings[i], "CAN")

\* C6 ----------------------------------------------------------------------
\* a line contributes a key when, stripped, it is not empty, is not a
\* comment and holds an '='
Contributes(raw) ==
    LET t == Strip(raw)
    IN t # <<>> /\ ~HasPrefix(t, COMMENT) /\ \E p \in 1..Len(t) : t[p] = EQUALS

\* the part of a contributing line before / after its first '='
FirstEq(t) == CHOOSE p \in 1..Len(t) :
                  t[p] = EQUALS /\ \A q \in 1..(p - 1) : t[q] # EQUALS
KeyOf(raw) == LET t == Strip(raw) IN Strip(SubSeq(t, 1, FirstEq(t) - 1))
ValueOf(raw) == LET t == Strip(raw) IN Strip(SubSeq(t, FirstEq(t) + 1, Len(t)))

\* C6: the loaded mapping holds exactly the keys of the contributing lines,
\* each with the value of the last contributing line that has that key, a
\* line being split at its first '=' only and both parts trimmed.
C6_LoadLastWins ==
    Loaded =>
        LET C == {i \in 1..Len(Lines) : Contributes(Lines[i])}
        IN /\ DOMAIN config = {KeyOf(Lines[i]) : i \in C}
           /\ \A k \in DOMAIN config :
                  LET last == CHOOSE i \in C :
                                  /\ KeyOf(Lines[i]) = k
                                  /\ \A j \in C : KeyOf(Lines[j]) = k => j <= i
                  IN config[k] = ValueOf(Lines[last])

C6_Witness ==
    /\ Loaded
    /\ Len(Lines) = 2
    /\ Contributes(Lines[1]) /\ Contributes(Lines[2])
    /\ KeyOf(Lines[1]) = KeyOf(Lines[2])
    /\ ValueOf(Lines[1]) # ValueOf(Lines[2])
    /\ Contains(ValueOf(Lines[2]), EQUALS)
    /\ config[KeyOf(Lines[2])] = ValueOf(Lines[2])

\* C7 ----------------------------------------------------------------------
\* every rulebook key has the expected value
AllExpected ==
    /\ Value(KEY_UART_RX) = CIRCULAR
    /\ Value(KEY_UART_TX) = NORMAL
    /\ Value(KEY_ADC) = CIRCULAR
    /\ Value(KEY_DMA_PREEMPT) = FIVE
    /\ Value(KEY_DMA_SUB) = NOUGHT
    /\ Value(KEY_CAN_MODE) # <<>>
    /\ Value(KEY_CAN_NART) = DISABLE
    /\ Value(KEY_KEEP_USER_CODE) = LIT_TRUE
    /\ Value(KEY_DELETE_PREVIOUS) # LIT_TRUE
    /\ LET apb1 == PyInt(Value(KEY_APB1))
           apb2 == PyInt(Value(KEY_APB2))
       IN /\ apb1.ok /\ InRange(apb1, 42000000, 50000000)
          /\ apb2.ok /\ InRange(apb2, 80000000, 100000000)

\* C7: a config with every rulebook key at its expected value ends with no
\* error, no warning and exit code 0, whatever else the file holds.
C7_AllExpectedPasses ==
    (Loaded /\ AllExpected) =>
        /\ errors = <<>>
        /\ warnings = <<>>
        /\ exitCode \in {NoStatus, 0}
        /\ pc = "exited" => (exitCode = 0 /\ Completed)

C7_Witness ==
    /\ Loaded /\ AllExpected /\ pc = "exited"
    /\ KEY_CAN_PRESCALER \in DOMAIN config
    /\ Value(KEY_DELETE_PREVIOUS) = LIT_FALSE
    /\ exitCode = 0 /\ errors = <<>> /\ warnings = <<>>

\* C8 ----------------------------------------------------------------------
\* C8: a missing key reads as the empty string and never raises; in the DMA
\* check the RX and ADC modes each give one error unless exactly "CIRCULAR",
\* the TX mode gives one warning (no error) unless exactly "NORMAL", each
\* independently of the others.
C8_DmaMissingKeys ==
    [][pc = "dma" =>
        LET rxBad == Value(KEY_UART_RX) # CIRCULAR
            txBad == Value(KEY_UART_TX) # NORMAL
            adcBad == Value(KEY_ADC) # CIRCULAR
            newErrs == SubSeq(errors', Len(errors) + 1, Len(errors'))
            newWarns == SubSeq(warnings', Len(warnings) + 1, Len(warnings'))
        IN /\ pc' = "interrupts"
           /\ Len(newErrs) = (IF rxBad THEN 1 ELSE 0) + (IF adcBad THEN 1 ELSE 0)
           /\ Len(newWarns) = (IF txBad THEN 1 ELSE 0)
           /\ rxBad => Says(newErrs[1], "UART RX DMA mode")
           /\ adcBad => Says(newErrs[Len(newErrs)], "ADC DMA mode")
           /\ txBad => Says(newWarns[1], "UART TX DMA mode")
      ]_vars

C8_Witness ==
    /\ pc = "interrupts"
    /\ KEY_UART_RX \notin DOMAIN config
    /\ Value(KEY_UART_TX) = NORMAL
    /\ Value(KEY_ADC) = CIRCULAR
    /\ Len(errors) = 1 /\ warnings = <<>>
    /\ Says(errors[1], "UART RX DMA mode: Expected")
    /\ errors[1].args = <<CIRCULAR, <<>>>>

\* C9 ----------------------------------------------------------------------
ErrorRank(m) ==
    IF Says(m, "UART RX DMA mode") THEN 1
    ELSE IF Says(m, "ADC DMA mode") THEN 2
    ELSE IF Says(m, "Failed to parse clock frequencies") THEN 3
    ELSE IF Says(m, "APB1 frequency out of range") THEN 3
    ELSE IF Says(m, "Code generation setting 'KeepUserCode'") THEN 4
    ELSE 0

WarningRank(m) ==
    IF Says(m, "UART TX DMA mode") THEN 1
    ELSE IF Says(m, "DMA preemption priority") THEN 2
    ELSE IF Says(m, "DMA sub-priority") THEN 3
    ELSE IF Says(m, "APB2 frequency out of optimal range") THEN 4
    ELSE IF Says(m, "CAN1 not enabled") THEN 5
    ELSE IF Says(m, "CAN auto-retransmit should be enabled") THEN 5
    ELSE IF Says(m, "Code generation 'DeletePrevious'") THEN 6
    ELSE 0

\* the numbered lines of the report
Numbered == SelectSeq(out, LAMBDA l : l.kind \in {"error", "warning"})

\* the numbered line that prints message m as the i-th of its list
NumberedLine(kind, i, m) == [kind |-> kind, n |-> i, text |-> m.text, args |-> m.args]

\* C9: the error list is a subsequence of [UART RX, ADC, clock, KeepUserCode]
\* and the warning list a subsequence of [UART TX, preemption, sub-priority,
\* APB2, CAN, DeletePrevious]; the report numbers and prints the errors in
\* list order and then the warnings in list order.
C9_FindingOrder ==
    /\ \A i \in 1..Len(errors) : ErrorRank(errors[i]) > 0
    /\ \A i \in 1..Len(warnings) : WarningRank(warnings[i]) > 0
    /\ Increasing([i \in 1..Len(errors) |-> ErrorRank(errors[i])])
    /\ Increasing([i \in 1..Len(warnings) |-> WarningRank(warnings[i])])
    /\ Completed =>
           /\ Len(Numbered) = Len(errors) + Len(warnings)
           /\ \A i \in 1..Len(errors) : Numbered[i] = NumberedLine("error", i, errors[i])
           /\ \A i \in 1..Len(warnings) :
                  Numbered[Len(errors) + i] = NumberedLine("warning", i, warnings[i])
    /\ ~Completed => Numbered = <<>>

C9_Witness ==
    /\ pc = "exited" /\ Completed
    /\ Len(errors) = 4 /\ Len(warnings) = 6
    /\ Len(Numbered) = 10

\* C2 ----------------------------------------------------------------------
SectionTexts == LET secs == SelectSeq(out, LAMBDA l : l.kind = "section")
                IN [i \in 1..Len(secs) |-> secs[i].text]

\* C2: after a successful load the run executes the five checks once each in
\* the order DMA, interrupt, clock, CAN, code generation, then the report,
\* then exits; no check keeps a later one from running.
C2_AllChecksRunInOrder ==
    (Loaded /\ pc = "exited") =>
        /\ SectionTexts = <<"[DMA Configuration]", "[Interrupt Configuration]",
                            "[Clock Configuration]", "[CAN Configuration]",
                            "[Code Generation Settings]">>
        /\ Count(out, LAMBDA l : l.kind = "verdict") = 1
        /\ exitCode \in {0, 1}

\* C4 ----------------------------------------------------------------------
IsClockError(m) == ErrorRank(m) = 3
IsClockWarning(m) == WarningRank(m) = 4

\* C4: if either frequency does not parse, the clock check appends exactly
\* one error and nothing else; otherwise it appends one error exactly when
\* APB1 is outside [42000000, 50000000] and one warning exactly when APB2 is
\* outside [80000000, 100000000].
C4_ClockFindings ==
    (Loaded /\ Ran("[Clock Configuration]")) =>
        LET apb1 == PyInt(IF KEY_APB1 \in DOMAIN config THEN config[KEY_APB1] ELSE NOUGHT)
            apb2 == PyInt(IF KEY_APB2 \in DOMAIN config THEN config[KEY_APB2] ELSE NOUGHT)
            clockErrs == SelectSeq(errors, IsClockError)
            clockWarns == SelectSeq(warnings, IsClockWarning)
        IN IF ~apb1.ok \/ ~apb2.ok
           THEN /\ clockErrs = <<Msg("Failed to parse clock frequencies from IOC file", <<>>)>>
                /\ clockWarns = <<>>
           ELSE /\ Len(clockErrs) = (IF InRange(apb1, 42000000, 50000000) THEN 0 ELSE 1)
                /\ Len(clockWarns) = (IF InRange(apb2, 80000000, 100000000) THEN 0 ELSE 1)
                /\ \A i \in 1..Len(clockErrs) : Says(clockErrs[i], "APB1 frequency out of range")

\* C10 ---------------------------------------------------------------------
Confirmations(p) == Count(out, LAMBDA l : l.kind = "confirm" /\ HasPrefix(l.text, p))

HasFinding(p) ==
    \/ \E i \in 1..Len(errors) : Says(errors[i], p)
    \/ \E i \in 1..Len(warnings) : Says(warnings[i], p)

\* a sub-check that was evaluated and appended nothing printed one line
Confirmed(evaluated, finding, confirmation) ==
    (evaluated /\ ~HasFinding(finding)) => Confirmations(confirmation) = 1

ClockParsed ==
    /\ Ran("[Clock Configuration]")
    /\ ~HasFinding("Failed to parse clock frequencies")

\* C10: every sub-check that is evaluated and appends neither an error nor
\* a warning prints exactly one confirmation line.
C10_EveryPassIsConfirmed ==
    Loaded =>
        /\ Confirmed(Ran("[DMA Configuration]"), "UART RX DMA mode", "UART RX DMA mode")
        /\ Confirmed(Ran("[DMA Configuration]"), "UART TX DMA mode", "UART TX DMA mode")
        /\ Confirmed(Ran("[DMA Configuration]"), "ADC DMA mode", "ADC DMA mode")
        /\ Confirmed(Ran("[Interrupt Configuration]"), "DMA preemption priority",
                     "DMA preemption priority")
        /\ Confirmed(Ran("[Interrupt Configuration]"), "DMA sub-priority", "DMA sub-priority")
        /\ Confirmed(ClockParsed, "APB1 frequency", "APB1 frequency")
        /\ Confirmed(ClockParsed, "APB2 frequency", "APB2 frequency")
        /\ Confirmed(Ran("[CAN Configuration]") /\ Value(KEY_CAN_MODE) # <<>>,
                     "CAN auto-retransmit", "CAN auto-retransmit")
        /\ Confirmed(Ran("[Code Generation Settings]"), "Code generation setting 'KeepUserCode'",
                     "Keep user code")
        /\ Confirmed(Ran("[Code Generation Settings]"), "Code generation 'DeletePrevious'",
                     "Delete previous")

====
